---- MODULE Spec2Model ----
(***************************************************************************)
(* A model of the market-cap rank tracker: the ingestion job               *)
(* (fetch_and_store.py) that builds ranked daily snapshots and replaces    *)
(* them in the ranks table, and the query service (app.py) with its        *)
(* response cache and rate limiter.                                        *)
(*                                                                         *)
(* Dates are small integers (ISO date strings compare in calendar order),  *)
(* floats that only ever get compared or copied are integers, and wall     *)
(* clock time is counted in ticks.                                         *)
(***************************************************************************)
EXTENDS Integers, Sequences, FiniteSets, TLC

VARIABLES
    \* ---- the ranks table and the ingestion job ----
    db,          \* committed rows of the ranks table, as any other connection sees them
    db_exists,   \* whether the database file exists
    wview,       \* the ingestion connection's view, uncommitted changes included
    pc,          \* where main() is: "idle", "deleted", "inserted"
    rank_rows,   \* the rows of the current (or last) run
    run,         \* the inputs of the current (or last) run and how it ended
    db0,         \* the committed rows when the current (or last) replace began
    seen,        \* the last read made while a replace was in flight
    \* ---- the query service ----
    resp,        \* the response of the request being served, <<>> when none
    db_mtime,    \* st_mtime of the database file, in ticks
    now,         \* time.time(), in ticks
    api_cache,   \* _api_cache: its entries in insertion order
    cache_conf,  \* API_CACHE_TTL_SECONDS of this deployment
    cache_log,   \* what cache_set last did for each key, and the number of updates
    rate_limit_log,  \* _rate_limit_log: per client the timestamps kept
    rate_conf,   \* RATE_LIMIT_WINDOW_SECONDS and RATE_LIMIT_MAX_REQUESTS
    rate_seen,   \* every admitted check so far and the outcome of the last check
                 \* (with threads: the calls in flight and the outcome of the last check)
    \* ---- fetch_symbol_history ----
    hist         \* the series of one symbol on their way to market caps

storeVars == <<db, db_exists, wview, pc, rank_rows, run, db0, seen>>

cacheVars == <<db_mtime, api_cache, cache_conf, cache_log>>

rateVars == <<rate_limit_log, rate_conf, rate_seen>>

vars == <<db, db_exists, wview, pc, rank_rows, run, db0, seen, resp, db_mtime, now,
          api_cache, cache_conf, cache_log, rate_limit_log, rate_conf, rate_seen, hist>>

\* what the ingestion job alone, and the uncached queries, leave untouched
serviceVars == <<resp, db_mtime, now, api_cache, cache_conf, cache_log,
                 rate_limit_log, rate_conf, rate_seen, hist>>

cachedServiceVars == <<db_mtime, now, api_cache, cache_conf, cache_log,
                       rate_limit_log, rate_conf, rate_seen, hist>>

\* the values of the parts a specification leaves out
NoHist == [stage |-> "none"]
CacheOff == db_mtime = 0 /\ api_cache = <<>> /\ cache_conf = 0 /\ cache_log = <<>>
RateOff == rate_limit_log = <<>> /\ rate_conf = <<>> /\ rate_seen = <<>>
ClockOff == now = 0
SharesOff == hist = NoHist

----------------------------------------------------------------------------
(* Bounds of the ingestion universe *)

Symbols == {"A", "B"}
Dates == {1, 2}
Prices == {10}
\* as many cap levels as symbols give every relative order of the caps of a
\* date, ties included; store limits below, at and above the symbol count
Caps == 1..Cardinality(Symbols)
StoreLimits == 1..(Cardinality(Symbols) + 1)

\* the alphabetical position of a symbol (string comparison)
SymbolIndex(s) == CASE s = "A" -> 1 [] s = "B" -> 2 [] s = "C" -> 3 [] s = "D" -> 4

NoDate == 0

Min(a, b) == IF a <= b THEN a ELSE b
Max(a, b) == IF a >= b THEN a ELSE b

SetMin(S) == CHOOSE x \in S : \A y \in S : x <= y
SetMax(S) == CHOOSE x \in S : \A y \in S : x >= y

\* sorted(set): ascending sequence of a finite set of integers
RECURSIVE Sorted(_)
Sorted(S) ==
    IF S = {} THEN <<>>
    ELSE LET m == SetMin(S) IN <<m>> \o Sorted(S \ {m})

SeqToSet(s) == {s[i] : i \in 1..Len(s)}

RECURSIVE Concat(_)
Concat(ss) == IF ss = <<>> THEN <<>> ELSE Head(ss) \o Concat(Tail(ss))

----------------------------------------------------------------------------
(* build_rank_rows *)

\* The (symbol, date, market_cap, price) items in the order the nested loops
\* over histories.items() and each series visit them.
RECURSIVE HistoryItems(_)
HistoryItems(histories) ==
    IF histories = <<>> THEN <<>>
    ELSE LET h == Head(histories) IN
         [i \in 1..Len(h.series) |->
             [symbol |-> h.symbol, date |-> h.series[i].date,
              market_cap |-> h.series[i].market_cap, price |-> h.series[i].price]]
         \o HistoryItems(Tail(histories))

\* per_date[date_str]: the items of one date, in insertion order; the
\* target_date filter skips every other date.
PerDate(histories, target_date, d) ==
    SelectSeq(HistoryItems(histories),
              LAMBDA e : e.date = d /\ (target_date = NoDate \/ e.date = target_date))

PerDateKeys(histories, target_date) ==
    {e.date : e \in {x \in SeqToSet(HistoryItems(histories)) :
                        target_date = NoDate \/ x.date = target_date}}

\* sorted(items, key=market_cap, reverse=True): a stable sort, so items of
\* equal market_cap keep their insertion order.
RECURSIVE InsertByCapDesc(_, _)
InsertByCapDesc(sorted, item) ==
    IF sorted = <<>> THEN <<item>>
    ELSE IF Head(sorted).market_cap >= item.market_cap
         THEN <<Head(sorted)>> \o InsertByCapDesc(Tail(sorted), item)
         ELSE <<item>> \o sorted

RECURSIVE SortByCapDesc(_)
SortByCapDesc(items) ==
    IF items = <<>> THEN <<>>
    ELSE InsertByCapDesc(SortByCapDesc(SubSeq(items, 1, Len(items) - 1)), items[Len(items)])

\* ranked = sorted(...)[:store_limit]
Truncate(ranked, store_limit) == SubSeq(ranked, 1, Min(store_limit, Len(ranked)))

\* enumerate(ranked) without start=1: ranks from 0
RankRowsOfDate_From0(d, ranked) ==
    [i \in 1..Len(ranked) |->
        [date |-> d, symbol |-> ranked[i].symbol, market_cap |-> ranked[i].market_cap,
         price |-> ranked[i].price, rank |-> i - 1]]

\* enumerate(ranked, start=1)
RankRowsOfDate(d, ranked) ==
    [i \in 1..Len(ranked) |->
        [date |-> d, symbol |-> ranked[i].symbol, market_cap |-> ranked[i].market_cap,
         price |-> ranked[i].price, rank |-> i]]

build_rank_rows(histories, store_limit, target_date, all_dates) ==
    LET keys == PerDateKeys(histories, target_date)
        dates == IF keys = {} THEN <<>>
                 ELSE IF ~all_dates /\ target_date = NoDate THEN <<SetMax(keys)>>
                 ELSE Sorted(keys)
    IN Concat([i \in 1..Len(dates) |->
                 RankRowsOfDate(dates[i],
                     Truncate(SortByCapDesc(PerDate(histories, target_date, dates[i])),
                              store_limit))])

----------------------------------------------------------------------------
(* replace_rows, statement by statement *)

RowDates(rows) == {rows[i].date : i \in 1..Len(rows)}

\* DELETE FROM ranks WHERE as_of_date >= dates[0]: the upper end forgotten
DeleteRange_NoUpper(table, rows) ==
    {r \in table : ~(SetMin(RowDates(rows)) <= r.date)}

\* DELETE FROM ranks WHERE as_of_date BETWEEN dates[0] AND dates[-1]
DeleteRange(table, rows) ==
    {r \in table : ~(SetMin(RowDates(rows)) <= r.date /\ r.date <= SetMax(RowDates(rows)))}

Key(r) == <<r.date, r.symbol>>

\* PRIMARY KEY (as_of_date, symbol): an INSERT of a key already present fails
KeyConflict(table, rows) ==
    \/ \E i \in 1..Len(rows) : \E r \in table : Key(r) = Key(rows[i])
    \/ \E i, j \in 1..Len(rows) : i # j /\ Key(rows[i]) = Key(rows[j])

\* executemany(INSERT ...)
InsertRows(table, rows) == table \cup SeqToSet(rows)

\* the whole of replace_rows on a table, when no statement fails
replace_rows(table, rows) ==
    IF rows = <<>> THEN table ELSE InsertRows(DeleteRange(table, rows), rows)

----------------------------------------------------------------------------
(* Reads of the query service: a read-only connection sees committed rows *)

ReaderView == db

RECURSIVE SortByRank(_)
SortByRank(rows) ==
    IF rows = {} THEN <<>>
    ELSE LET m == CHOOSE x \in rows : \A y \in rows :
                     \/ x.rank < y.rank
                     \/ x.rank = y.rank /\ SymbolIndex(x.symbol) < SymbolIndex(y.symbol)
                     \/ x.rank = y.rank /\ x.symbol = y.symbol /\ x.market_cap <= y.market_cap
         IN <<m>> \o SortByRank(rows \ {m})

\* SELECT ... WHERE as_of_date = ? ORDER BY rank ASC LIMIT ?
fetch_snapshot(table, as_of_date, limit) ==
    LET ordered == SortByRank({r \in table : r.date = as_of_date})
    IN SubSeq(ordered, 1, Min(limit, Len(ordered)))

----------------------------------------------------------------------------
(* The ingestion job: main() of fetch_and_store.py *)

\* What fetch_symbol_history can give for one symbol: an exception ("raise")
\* or a series, one (date, market_cap, price) per date with a positive cap,
\* in date order.  An empty series is a failure of that symbol too.
SeriesOf(q) ==
    LET ds == Sorted({d \in Dates : q[d][1] > 0})
    IN [i \in 1..Len(ds) |->
           [date |-> ds[i], market_cap |-> q[ds[i]][1], price |-> q[ds[i]][2]]]

\* <<0, 0>>: no row for that date (no close, or a cap that is not positive)
Quotes == {<<0, 0>>} \cup (Caps \X Prices)

FetchOutcomes ==
    {[raised |-> TRUE, series |-> <<>>]}
    \cup {[raised |-> FALSE, series |-> SeriesOf(q)] : q \in [Dates -> Quotes]}

\* every order in which the screener can list the symbols
Perms(S) ==
    {p \in [1..Cardinality(S) -> S] : \A i, j \in 1..Cardinality(S) : i # j => p[i] # p[j]}

\* the fetch loop: histories keeps, in screener order, the symbols whose
\* fetch gave a non-empty series; the others go to failures
RECURSIVE Histories(_, _)
Histories(symbols, fetched) ==
    IF symbols = <<>> THEN <<>>
    ELSE LET s == Head(symbols) IN
         (IF fetched[s].raised \/ fetched[s].series = <<>>
          THEN <<>>
          ELSE <<[symbol |-> s, series |-> fetched[s].series]>>)
         \o Histories(Tail(symbols), fetched)

Failures(symbols, fetched) ==
    {s \in SeqToSet(symbols) : fetched[s].raised \/ fetched[s].series = <<>>}

NoRun == [status |-> "none", store_limit |-> 0, counts |-> <<>>, reps |-> 0, once |-> {}]

\* how many symbols of the run had a row for each date the run writes (the
\* n of that date), 0 for the other dates
Counts(histories, target_date, rows) ==
    [d \in Dates |-> IF d \in RowDates(rows) THEN Len(PerDate(histories, target_date, d)) ELSE 0]

\* The command lines: --store-limit, --date and --all-dates.  all_dates is
\* read only when no --date is given (line 349), so it is drawn only then.
RunArgs ==
    {[store_limit |-> l, target_date |-> t, all_dates |-> a] :
        l \in StoreLimits, t \in {NoDate} \cup Dates, a \in BOOLEAN}
    \ {x \in [store_limit : StoreLimits, target_date : Dates, all_dates : {TRUE}] : TRUE}

\* main() from the screener call to the rows build_rank_rows returns: either
\* ConfigError ends the job before anything is written
MainBuild ==
    /\ pc = "idle" /\ run.status = "none"
    /\ \E symbols \in Perms(Symbols), fetched \in [Symbols -> FetchOutcomes], args \in RunArgs :
        LET histories == Histories(symbols, fetched)
            rows == build_rank_rows(histories, args.store_limit, args.target_date, args.all_dates)
        IN IF histories = <<>> \/ rows = <<>>
           THEN /\ run' = [NoRun EXCEPT !.status = "config_error"]
                /\ UNCHANGED <<pc, rank_rows>>
           ELSE /\ run' = [status |-> "built", store_limit |-> args.store_limit,
                           counts |-> Counts(histories, args.target_date, rows), reps |-> 1,
                           once |-> {}]
                /\ rank_rows' = rows
                /\ pc' = "built"
    /\ UNCHANGED <<db, db_exists, wview, db0, seen>>

\* if args.dry_run: return
MainDryRun ==
    /\ pc = "built"
    /\ pc' = "idle"
    /\ run' = [run EXCEPT !.status = "dry_run"]
    /\ UNCHANGED <<db, db_exists, wview, rank_rows, db0, seen>>

\* a connection in autocommit mode: the DELETE is committed at once
MainDelete_Autocommit ==
    /\ pc = "built"
    /\ db_exists' = TRUE
    /\ db0' = db
    /\ wview' = DeleteRange(db, rank_rows)
    /\ db' = DeleteRange(db, rank_rows)
    /\ pc' = "deleted"
    /\ run' = [run EXCEPT !.status = "writing", !.store_limit = 0, !.counts = <<>>]
    /\ UNCHANGED <<rank_rows, seen>>

\* with sqlite3.connect(DB_PATH): ensure_db, then the DELETE of replace_rows,
\* which opens the transaction
MainDelete ==
    /\ pc = "built"
    /\ db_exists' = TRUE
    /\ db0' = db
    /\ wview' = DeleteRange(db, rank_rows)
    /\ pc' = "deleted"
    /\ run' = [run EXCEPT !.status = "writing", !.store_limit = 0, !.counts = <<>>]
    /\ UNCHANGED <<db, rank_rows, seen>>

\* cur = conn.executemany(INSERT ...): a key conflict raises, and the
\* connection's context manager rolls the transaction back
MainInsert ==
    /\ pc = "deleted"
    /\ IF KeyConflict(wview, rank_rows)
       THEN /\ wview' = db
            /\ pc' = "idle"
            /\ run' = [run EXCEPT !.status = "failed"]
       ELSE /\ wview' = InsertRows(wview, rank_rows)
            /\ pc' = "inserted"
            /\ run' = run
    /\ UNCHANGED <<db, db_exists, rank_rows, db0, seen>>

\* conn.commit()
MainCommit ==
    /\ pc = "inserted"
    /\ db' = wview
    /\ pc' = "idle"
    /\ run' = [run EXCEPT !.status = "stored"]
    /\ seen' = <<>>
    /\ UNCHANGED <<db_exists, wview, rank_rows, db0>>

\* the same run made again: build_rank_rows is a function of its inputs, so
\* the second run replaces with the same rows
MainAgain ==
    /\ pc = "idle" /\ run.status = "stored" /\ run.reps = 1
    /\ run' = [run EXCEPT !.status = "writing", !.reps = 2, !.once = db]
    /\ wview' = DeleteRange(db, rank_rows)
    /\ pc' = "deleted"
    /\ UNCHANGED <<db, db_exists, rank_rows, db0, seen>>

\* the process ends; its locals are gone
MainExit ==
    /\ pc = "idle" /\ run.status # "none"
    /\ run' = NoRun
    /\ rank_rows' = <<>>
    /\ db0' = {}
    /\ seen' = <<>>
    /\ wview' = db
    /\ UNCHANGED <<db, db_exists, pc>>

\* a query of the service reads one date's snapshot while the job's first
\* replace is in flight
ReadSnapshot ==
    /\ db_exists
    /\ pc \in {"deleted", "inserted"} /\ run.reps = 1
    /\ \E d \in Dates, limit \in StoreLimits :
        seen' = <<[date |-> d, limit |-> limit, rows |-> fetch_snapshot(ReaderView, d, limit)]>>
    /\ UNCHANGED <<db, db_exists, wview, pc, rank_rows, run, db0>>

StoreInit ==
    /\ db = {}
    /\ db_exists = FALSE
    /\ wview = {}
    /\ pc = "idle"
    /\ rank_rows = <<>>
    /\ run = NoRun
    /\ db0 = {}
    /\ seen = <<>>

Init == StoreInit /\ resp = <<>> /\ CacheOff /\ RateOff /\ ClockOff /\ SharesOff

Next ==
    \/ MainBuild /\ UNCHANGED serviceVars
    \/ MainDryRun /\ UNCHANGED serviceVars
    \/ MainDelete /\ UNCHANGED serviceVars
    \/ MainInsert /\ UNCHANGED serviceVars
    \/ MainCommit /\ UNCHANGED serviceVars
    \/ MainAgain /\ UNCHANGED serviceVars
    \/ MainExit /\ UNCHANGED serviceVars
    \/ ReadSnapshot /\ UNCHANGED serviceVars

Spec == Init /\ [][Next]_vars

----------------------------------------------------------------------------
(* Claims about the ranks table *)

RowsOf(table, d) == {r \in table : r.date = d}

RanksExact(table, d) ==
    /\ {r.rank : r \in RowsOf(table, d)} = 1..Cardinality(RowsOf(table, d))
    /\ \A r1, r2 \in RowsOf(table, d) : r1.rank = r2.rank => r1 = r2
    /\ \A r1, r2 \in RowsOf(table, d) : r1.symbol = r2.symbol => r1 = r2

\* C1: after any sequence of ingestion runs, each with its own store limit,
\* the ranks of every stored date are exactly 1..k with k the number of rows
\* of that date, no rank and no (date, symbol) twice; and the rows a run
\* builds for a date are min(n, store_limit) many, n the number of symbols
\* with a row for that date in that run.
C1_RanksContiguous ==
    /\ \A d \in Dates : RanksExact(db, d)
    /\ pc = "built" =>
         \A d \in RowDates(rank_rows) :
            /\ RanksExact(SeqToSet(rank_rows), d)
            /\ Cardinality(RowsOf(SeqToSet(rank_rows), d)) = Min(run.counts[d], run.store_limit)
            /\ Cardinality(RowsOf(SeqToSet(rank_rows), d)) >= 1

\* a second run, with a smaller store limit, has replaced one date of two:
\* the store holds one date with two rows and one with a single row
C1_Witness ==
    /\ pc = "idle" /\ run.status = "stored"
    /\ db0 # {}
    /\ \E d1, d2 \in Dates :
        /\ Cardinality(RowsOf(db, d1)) = 2
        /\ Cardinality(RowsOf(db, d2)) = 1
        /\ RowDates(rank_rows) = {d2}
        /\ Cardinality(RowsOf(db0, d2)) = 2

InRange(r, rows) == SetMin(RowDates(rows)) <= r.date /\ r.date <= SetMax(RowDates(rows))

\* C2: once a replace has committed, every row stored before it with a date
\* outside [d1, d2] is still stored and unchanged, no other row outside the
\* range has appeared, the rows inside the range are exactly the given rows,
\* and a second replace with the same rows leaves the table as the first did.
C2_ReplaceIdempotentScoped ==
    (pc = "idle" /\ run.status = "stored") =>
        /\ \A r \in db0 : ~InRange(r, rank_rows) => r \in db
        /\ \A r \in db : ~InRange(r, rank_rows) => r \in db0
        /\ {r \in db : InRange(r, rank_rows)} = SeqToSet(rank_rows)
        /\ run.reps = 2 => db = run.once

\* the same rows were applied twice to a table that held rows outside the
\* range and rows inside it that the replace removed
C2_Witness ==
    /\ pc = "idle" /\ run.status = "stored" /\ run.reps = 2
    /\ \E r \in db0 : ~InRange(r, rank_rows)
    /\ \E r \in db0 : InRange(r, rank_rows) /\ r \notin db

\* the table a committed replace of rank_rows leaves, from the table before
AfterReplace ==
    {r \in db0 : ~InRange(r, rank_rows)} \cup SeqToSet(rank_rows)

\* C3: a read of one date's rows made while a replace is in flight returns
\* that date's rows as they were before the replace or as they are after
\* it, never the state in between (old rows deleted, new rows missing).
C3_ReplaceAtomicForReaders ==
    /\ seen # <<>> =>
        \/ seen[1].rows = fetch_snapshot(db0, seen[1].date, seen[1].limit)
        \/ seen[1].rows = fetch_snapshot(AfterReplace, seen[1].date, seen[1].limit)
    /\ pc \in {"deleted", "inserted"} =>
        \A d \in Dates : RowsOf(ReaderView, d) \in {RowsOf(db0, d), RowsOf(AfterReplace, d)}

\* a read made after the DELETE and before the INSERT, of a date whose old
\* rows the transaction has deleted and whose new rows differ
C3_Witness ==
    /\ seen # <<>> /\ pc = "deleted"
    /\ seen[1].rows # <<>>
    /\ RowsOf(wview, seen[1].date) = {}
    /\ RowsOf(AfterReplace, seen[1].date) # RowsOf(db0, seen[1].date)
    /\ RowsOf(AfterReplace, seen[1].date) # {}

----------------------------------------------------------------------------
(* The query service (app.py): event queries over the stored snapshots.    *)
(* SpecQuery runs it with API_CACHE_TTL_SECONDS = 0, where cache_get       *)
(* always misses and cache_set stores nothing, over a table that daily     *)
(* runs of the ingestion job have filled.                                  *)

QSymbols == {"A", "B", "C"}
NumQDates == 4
QStoreLimit == 3
MaxEventItems == 6
MaxThreshold == 2

Null == 0

\* DISTINCT as_of_date
StoredDates(table) == {r.date : r \in table}

\* the last n elements of an ascending sequence: ORDER BY ... DESC LIMIT n,
\* then sorted()
LastN(seq, n) == SubSeq(seq, Max(1, Len(seq) - n + 1), Len(seq))

\* fetch_event_dates: every stored date, or the days + 1 most recent ones
fetch_event_dates(table, days) ==
    IF days = Null THEN Sorted(StoredDates(table))
    ELSE LastN(Sorted(StoredDates(table)), days + 1)

\* fetch_rank_maps: per date of [dates[0], dates[-1]] the (symbol, rank) of
\* its rows with rank <= max_rank, in the order of the query (rank ascending),
\* which is the order the dict of that date keeps
fetch_rank_maps(table, dates, max_rank) ==
    IF dates = <<>> THEN <<>>
    ELSE LET rows == {r \in table : /\ r.date >= dates[1]
                                    /\ r.date <= dates[Len(dates)]
                                    /\ r.rank <= max_rank}
         IN [d \in StoredDates(rows) |-> SortByRank(RowsOf(rows, d))]

\* wide_maps.get(date, {})
MapGet(maps, d) == IF d \in DOMAIN maps THEN maps[d] ELSE <<>>

MapSymbols(map) == {map[i].symbol : i \in 1..Len(map)}

\* map.get(sym): None (Null) when the symbol has no entry
RankIn(map, sym) ==
    IF sym \in MapSymbols(map)
    THEN (CHOOSE i \in 1..Len(map) : map[i].symbol = sym /\
             \A j \in 1..Len(map) : map[j].symbol = sym => j <= i) 
    ELSE Null

RankOf(map, sym) == IF RankIn(map, sym) = Null THEN Null ELSE map[RankIn(map, sym)].rank

TopSymbols_All(map, limit) == MapSymbols(map)

\* {sym: rank for sym, rank in wide.items() if rank <= limit}
TopSymbols(map, limit) == {map[i].symbol : i \in {j \in 1..Len(map) : map[j].rank <= limit}}

\* every order in which a for loop over a set can visit its elements
Orders(S) ==
    {p \in [1..Cardinality(S) -> S] : \A i, j \in 1..Cardinality(S) : i # j => p[i] # p[j]}

\* events[:max_events]: the head kept instead of the tail
TruncateEvents_Head(events, max_events) ==
    IF max_events # 0 /\ Len(events) > max_events THEN SubSeq(events, 1, max_events) ELSE events

\* events[-max_events:] when there are more than max_events
TruncateEvents(events, max_events) ==
    IF max_events # 0 /\ Len(events) > max_events THEN LastN(events, max_events) ELSE events

\* the events of one pair of dates in api_new_entrants, in loop order
NewEntrantEvents(prev_wide, curr_wide, date, limit, order) ==
    [i \in 1..Len(order) |->
        [date |-> date, symbol |-> order[i],
         from_rank |-> RankOf(prev_wide, order[i]),
         to_rank |-> RankOf(curr_wide, order[i])]]

\* the event lists the loop over dates[idx..] can build: the symbols of one
\* date come in the iteration order of a set, which can be any
RECURSIVE NewEntrantLists(_, _, _, _)
NewEntrantLists(wide_maps, dates, idx, limit) ==
    IF idx > Len(dates) THEN {<<>>}
    ELSE LET prev_wide == MapGet(wide_maps, dates[idx - 1])
             curr_wide == MapGet(wide_maps, dates[idx])
             new_symbols == TopSymbols(curr_wide, limit) \ TopSymbols(prev_wide, limit)
         IN {NewEntrantEvents(prev_wide, curr_wide, dates[idx], limit, order) \o rest :
                order \in Orders(new_symbols),
                rest \in NewEntrantLists(wide_maps, dates, idx + 1, limit)}

WideRank == 1000

\* api_new_entrants on a cache miss: every response it can give
new_entrants_results(table, limit, days, max_events) ==
    LET dates == fetch_event_dates(table, days) IN
    IF Len(dates) < 2 THEN {[events |-> <<>>, total_events |-> 0]}
    ELSE {[events |-> TruncateEvents(events, max_events), total_events |-> Len(events)] :
             events \in NewEntrantLists(fetch_rank_maps(table, dates, WideRank), dates, 2, limit)}

MoverEvents_Symmetric(prev_map, curr_map, date, limit, threshold) ==
    LET diff(i) == RankOf(prev_map, curr_map[i].symbol) - curr_map[i].rank
        hit(i) == /\ ~(curr_map[i].rank > limit)
                  /\ RankOf(prev_map, curr_map[i].symbol) # Null
                  /\ (diff(i) >= threshold \/ 0 - diff(i) >= threshold)
        picked == SelectSeq([i \in 1..Len(curr_map) |-> i], hit)
    IN [k \in 1..Len(picked) |->
           [date |-> date, symbol |-> curr_map[picked[k]].symbol,
            from_rank |-> RankOf(prev_map, curr_map[picked[k]].symbol),
            to_rank |-> curr_map[picked[k]].rank]]

\* the events of one date in api_big_movers: the loop over curr_map.items()
MoverEvents(prev_map, curr_map, date, limit, threshold) ==
    LET hit(i) == /\ ~(curr_map[i].rank > limit)
                  /\ RankOf(prev_map, curr_map[i].symbol) # Null
                  /\ RankOf(prev_map, curr_map[i].symbol) - curr_map[i].rank >= threshold
        picked == SelectSeq([i \in 1..Len(curr_map) |-> i], hit)
    IN [k \in 1..Len(picked) |->
           [date |-> date, symbol |-> curr_map[picked[k]].symbol,
            from_rank |-> RankOf(prev_map, curr_map[picked[k]].symbol),
            to_rank |-> curr_map[picked[k]].rank]]

\* the loop over dates[1:], prev_map carried from date to date
RECURSIVE MoverList(_, _, _, _, _)
MoverList(wide_maps, dates, idx, limit, threshold) ==
    IF idx > Len(dates) THEN <<>>
    ELSE MoverEvents(MapGet(wide_maps, dates[idx - 1]), MapGet(wide_maps, dates[idx]),
                     dates[idx], limit, threshold)
         \o MoverList(wide_maps, dates, idx + 1, limit, threshold)

\* api_big_movers on a cache miss
big_movers_result(table, limit, days, max_events, threshold) ==
    LET dates == fetch_event_dates(table, days) IN
    IF Len(dates) < 2 THEN [events |-> <<>>, total_events |-> 0]
    ELSE LET events == MoverList(fetch_rank_maps(table, dates, WideRank), dates, 2, limit, threshold)
         IN [events |-> TruncateEvents(events, max_events), total_events |-> Len(events)]

\* Query(...) validation of the event routes: limit 1..MAX_LIMIT, days None
\* or 2..MAX_EVENT_DAYS, max_events 1..MAX_EVENT_ITEMS, threshold 1..100
QLimits == 1..(QStoreLimit - 1)
QDays == {Null, 2}
QMaxEvents == {1, MaxEventItems}
QThresholds == 1..MaxThreshold

\* One request at a time: resp holds the response of the request being
\* served until the middleware returns it.
\* get_conn: 500 when the database file is missing
ApiNewEntrants ==
    /\ resp = <<>>
    /\ \E limit \in QLimits, days \in QDays, max_events \in QMaxEvents :
        IF ~db_exists
        THEN resp' = <<[op |-> "new-entrants", status |-> 500]>>
        ELSE \E body \in new_entrants_results(ReaderView, limit, days, max_events) :
               resp' = <<[op |-> "new-entrants", status |-> 200, limit |-> limit, days |-> days,
                          max_events |-> max_events, body |-> body]>>
    /\ UNCHANGED storeVars

ApiBigMovers ==
    /\ resp = <<>>
    /\ \E limit \in QLimits, days \in QDays, max_events \in QMaxEvents, threshold \in QThresholds :
        IF ~db_exists
        THEN resp' = <<[op |-> "big-movers", status |-> 500]>>
        ELSE resp' = <<[op |-> "big-movers", status |-> 200, limit |-> limit, days |-> days,
                        max_events |-> max_events, threshold |-> threshold,
                        body |-> big_movers_result(ReaderView, limit, days, max_events, threshold)]>>
    /\ UNCHANGED storeVars

\* The caps of one day. On a full day every symbol has data and the caps
\* n, n - 1, ..., 1 (n the number of symbols) are dealt in any order; on a
\* thin day a single symbol has data. No two caps of a day tie.
DayCaps ==
    {c \in [QSymbols -> 0..Cardinality(QSymbols)] :
        \/ /\ \A s \in QSymbols : c[s] > 0
           /\ \A s, t \in QSymbols : s # t => c[s] # c[t]
        \/ \E s \in QSymbols :
              c = [t \in QSymbols |-> IF t = s THEN Cardinality(QSymbols) ELSE 0]}

RECURSIVE DayHistories(_, _, _)
DayHistories(symbols, c, d) ==
    IF symbols = <<>> THEN <<>>
    ELSE (IF c[Head(symbols)] = 0 THEN <<>>
          ELSE <<[symbol |-> Head(symbols),
                  series |-> <<[date |-> d, market_cap |-> c[Head(symbols)], price |-> 10]>>]>>)
         \o DayHistories(Tail(symbols), c, d)

QSymbolList == <<"A", "B", "C">>

\* one whole daily run of main() (latest date only, --store-limit
\* QStoreLimit) for the day after the last stored one
QIngestDay ==
    /\ pc = "idle" /\ run.status = "none"
    /\ resp = <<>>
    /\ \E c \in DayCaps :
        LET d == IF db = {} THEN 1 ELSE SetMax(StoredDates(db)) + 1
            rows == build_rank_rows(DayHistories(QSymbolList, c, d), QStoreLimit, NoDate, FALSE)
        IN /\ d <= NumQDates
           /\ rows # <<>>
           /\ db' = replace_rows(db, rows)
           /\ wview' = db'
           /\ db_exists' = TRUE
    /\ UNCHANGED <<pc, rank_rows, run, db0, seen, resp>>

\* the middleware hands the response to the client; the worker is free for
\* the next request
QReturn ==
    /\ resp # <<>>
    /\ resp' = <<>>
    /\ UNCHANGED storeVars

\* fetch_recent_dates: the days most recent stored dates, ascending
fetch_recent_dates(table, days) == LastN(Sorted(StoredDates(table)), days)

\* the stored dates of [dates[0], dates[-1]], ascending
DatesInRange(table, dates) ==
    Sorted({d \in StoredDates(table) : dates[1] <= d /\ d <= dates[Len(dates)]})

fetch_timeline_rows_NoLimit(table, dates, limit) ==
    IF dates = <<>> THEN <<>>
    ELSE Concat([i \in 1..Len(DatesInRange(table, dates)) |->
                    SortByRank({r \in table : r.date = DatesInRange(table, dates)[i]})])

\* fetch_timeline_rows: WHERE as_of_date >= dates[0] AND as_of_date <=
\* dates[-1] AND rank <= limit ORDER BY as_of_date ASC, rank ASC
fetch_timeline_rows(table, dates, limit) ==
    IF dates = <<>> THEN <<>>
    ELSE Concat([i \in 1..Len(DatesInRange(table, dates)) |->
                    SortByRank({r \in table : /\ r.date = DatesInRange(table, dates)[i]
                                              /\ r.rank <= limit})])

\* idx_by_date[row["as_of_date"]]
DateIdx(dates, d) == CHOOSE i \in 1..Len(dates) : dates[i] = d

\* series_map[symbol] after the loop over rows: [None] * len(dates) with the
\* rank and cap of each row of the symbol written at the index of its date
SeriesOfSymbol(rows, dates, symbol) ==
    LET at(i) == {k \in 1..Len(rows) : rows[k].symbol = symbol /\ DateIdx(dates, rows[k].date) = i}
        last(i) == rows[SetMax(at(i))]
    IN [symbol |-> symbol,
        ranks |-> [i \in 1..Len(dates) |-> IF at(i) = {} THEN Null ELSE last(i).rank],
        caps |-> [i \in 1..Len(dates) |-> IF at(i) = {} THEN Null ELSE last(i).market_cap]]

NullRank == 99999

\* sort_key: (latest_rank, best_rank, symbol)
LatestRank(item) ==
    IF item.ranks[Len(item.ranks)] # Null THEN item.ranks[Len(item.ranks)] ELSE NullRank

BestRank(item) ==
    LET known == {item.ranks[i] : i \in 1..Len(item.ranks)} \ {Null}
    IN IF known = {} THEN NullRank ELSE SetMin(known)

SortKeyLess(a, b) ==
    \/ LatestRank(a) < LatestRank(b)
    \/ LatestRank(a) = LatestRank(b) /\ BestRank(a) < BestRank(b)
    \/ /\ LatestRank(a) = LatestRank(b) /\ BestRank(a) = BestRank(b)
       /\ SymbolIndex(a.symbol) < SymbolIndex(b.symbol)

\* sorted(series_map.values(), key=sort_key)
RECURSIVE SortSeries(_)
SortSeries(items) ==
    IF items = {} THEN <<>>
    ELSE LET first == CHOOSE a \in items : \A b \in items \ {a} : SortKeyLess(a, b)
         IN <<first>> \o SortSeries(items \ {first})

\* api_ranks_timeline on a cache miss
ranks_timeline(table, limit, days) ==
    LET dates == fetch_recent_dates(table, days)
        rows == fetch_timeline_rows(table, dates, limit)
    IN IF dates = <<>> THEN [status |-> 404, body |-> <<>>]
       ELSE IF rows = <<>>
       THEN [status |-> 200, body |-> <<[dates |-> dates, series |-> <<>>, limit |-> limit]>>]
       ELSE [status |-> 200,
             body |-> <<[dates |-> dates,
                         series |-> SortSeries({SeriesOfSymbol(rows, dates, rows[k].symbol) :
                                                   k \in 1..Len(rows)}),
                         limit |-> limit]>>]

\* days: Query(120, ge=2, le=5475)
QTimelineDays == {2, 3}

ApiRanksTimeline ==
    /\ resp = <<>>
    /\ \E limit \in QLimits, days \in QTimelineDays :
        IF ~db_exists
        THEN resp' = <<[op |-> "timeline", status |-> 500]>>
        ELSE resp' = <<[op |-> "timeline", status |-> ranks_timeline(ReaderView, limit, days).status,
                        limit |-> limit, days |-> days,
                        body |-> ranks_timeline(ReaderView, limit, days).body]>>
    /\ UNCHANGED storeVars

QueryNext ==
    \/ QIngestDay /\ UNCHANGED cachedServiceVars
    \/ ApiNewEntrants /\ UNCHANGED cachedServiceVars
    \/ ApiBigMovers /\ UNCHANGED cachedServiceVars
    \/ ApiRanksTimeline /\ UNCHANGED cachedServiceVars
    \/ QReturn /\ UNCHANGED cachedServiceVars

SpecQuery == Init /\ [][QueryNext]_vars

----------------------------------------------------------------------------
(* Claims about the event queries, stated on the stored rows themselves.   *)

\* the dates of the selected span: all stored dates, or the days + 1 latest
SpanDates(table, days) ==
    {d \in StoredDates(table) :
        days = Null \/ Cardinality({e \in StoredDates(table) : e >= d}) <= days + 1}

\* chronologically consecutive stored dates of the span
SpanPairs(table, days) ==
    {p \in SpanDates(table, days) \X SpanDates(table, days) :
        /\ p[1] < p[2]
        /\ ~\E e \in StoredDates(table) : p[1] < e /\ e < p[2]}

\* the stored rank of a symbol on a date, Null without a row
StoredRank(table, d, sym) ==
    IF \E r \in table : r.date = d /\ r.symbol = sym
    THEN (CHOOSE r \in table : r.date = d /\ r.symbol = sym).rank
    ELSE Null

WideStoredRank(table, d, sym) ==
    IF StoredRank(table, d, sym) # Null /\ StoredRank(table, d, sym) <= WideRank
    THEN StoredRank(table, d, sym) ELSE Null

InTop(table, d, sym, limit) ==
    StoredRank(table, d, sym) # Null /\ StoredRank(table, d, sym) <= limit

ExpectedNewEntrants(table, limit, days) ==
    {[date |-> p[2], symbol |-> sym,
      from_rank |-> WideStoredRank(table, p[1], sym),
      to_rank |-> StoredRank(table, p[2], sym)] :
        <<p, sym>> \in {x \in SpanPairs(table, days) \X QSymbols :
                          /\ InTop(table, x[1][2], x[2], limit)
                          /\ ~InTop(table, x[1][1], x[2], limit)}}

ExpectedBigMovers(table, limit, days, threshold) ==
    {[date |-> p[2], symbol |-> sym,
      from_rank |-> WideStoredRank(table, p[1], sym),
      to_rank |-> StoredRank(table, p[2], sym)] :
        <<p, sym>> \in {x \in SpanPairs(table, days) \X QSymbols :
                          /\ InTop(table, x[1][2], x[2], limit)
                          /\ WideStoredRank(table, x[1][1], x[2]) # Null
                          /\ WideStoredRank(table, x[1][1], x[2])
                               - StoredRank(table, x[1][2], x[2]) >= threshold}}

\* a response carries exactly the expected events: each once, all of them
\* unless max_events cut the list, and total_events counts them all
CarriesExactly(body, expected, max_events) ==
    /\ body.total_events = Cardinality(expected)
    /\ SeqToSet(body.events) \subseteq expected
    /\ Cardinality(SeqToSet(body.events)) = Len(body.events)
    /\ Len(body.events) = Min(Cardinality(expected), max_events)
    /\ \A i, j \in 1..Len(body.events) : i < j => body.events[i].date <= body.events[j].date

Answered(op) == resp # <<>> /\ resp[1].op = op /\ resp[1].status = 200

\* C4: newEntrants emits, for every pair of consecutive stored dates
\* (prev, curr) of the selected span, an event for symbol s exactly when s
\* has rank <= limit on curr and has no rank <= limit on prev; its to_rank
\* is the rank of s on curr and its from_rank the rank of s on prev within
\* the wide map (rank <= 1000), or null without one. (max_events keeps the
\* latest events only; total_events counts them all.)
C4_NewEntrants ==
    Answered("new-entrants") =>
        CarriesExactly(resp[1].body,
                       ExpectedNewEntrants(db, resp[1].limit, resp[1].days),
                       resp[1].max_events)

\* the fixture in scaled form (prev top-2 = [x, y], curr top-2 = [x, z]: one
\* event, for z with to_rank 2), next to an entrant that had no rank at all
\* on prev, in a span that days cut out of the stored dates
C4_Witness ==
    /\ Answered("new-entrants")
    /\ resp[1].limit = 2 /\ resp[1].days = 2
    /\ Cardinality(StoredDates(db)) = NumQDates
    /\ Len(resp[1].body.events) >= 2
    /\ \E i \in 1..Len(resp[1].body.events) :
         LET e == resp[1].body.events[i] IN
           /\ e.to_rank = 2 /\ e.from_rank = 3
           /\ \A j \in 1..Len(resp[1].body.events) :
                 resp[1].body.events[j].date = e.date => j = i
    /\ \E i \in 1..Len(resp[1].body.events) : resp[1].body.events[i].from_rank = Null

\* C5: bigMovers emits, for every pair of consecutive stored dates
\* (prev, curr), an event for symbol s exactly when s has rank <= limit on
\* curr, has a rank on prev in the wide map, and
\* previousRank - currentRank >= threshold; declines and smaller
\* improvements produce none, and prev is always the stored date right
\* before curr.
C5_BigMovers ==
    Answered("big-movers") =>
        /\ CarriesExactly(resp[1].body,
                          ExpectedBigMovers(db, resp[1].limit, resp[1].days, resp[1].threshold),
                          resp[1].max_events)
        /\ \A i \in 1..Len(resp[1].body.events) :
              LET e == resp[1].body.events[i] IN
                /\ e.from_rank - e.to_rank >= resp[1].threshold
                /\ e.from_rank = StoredRank(db, e.date - 1, e.symbol)

\* the fixture in scaled form: with threshold 2 a move 3 -> 1 is an event
\* and, on another date of the same span, a move 2 -> 1 and a decline are not
C5_Witness ==
    /\ Answered("big-movers")
    /\ resp[1].threshold = 2 /\ resp[1].limit = 2
    /\ \E i \in 1..Len(resp[1].body.events) :
          resp[1].body.events[i].from_rank = 3 /\ resp[1].body.events[i].to_rank = 1
    /\ \E p \in SpanPairs(db, resp[1].days), s, t \in QSymbols :
          /\ StoredRank(db, p[1], s) = 2 /\ StoredRank(db, p[2], s) = 1
          /\ StoredRank(db, p[1], t) = 1 /\ StoredRank(db, p[2], t) = 3
          /\ \A i \in 1..Len(resp[1].body.events) : resp[1].body.events[i].date # p[2]

----------------------------------------------------------------------------
(* fetch_symbol_history: raw shares to split-consistent shares.            *)
(* A float that gets multiplied is an exact fraction <<numerator,          *)
(* denominator>>; the inputs below keep every comparison of the code away  *)
(* from its boundary, where rounding could decide.                         *)

MaxHistLen == 5
ratio_tolerance_pct == 20
stable_tolerance_pct == 5
max_lag_days == 3

One == <<1, 1>>
NoSplit == <<0, 1>>
RatMul(a, b) == <<a[1] * b[1], a[2] * b[2]>>
RatEq(a, b) == a[1] * b[2] = b[1] * a[2]
Abs(x) == IF x < 0 THEN 0 - x ELSE x

\* build_future_split_factor: the factor of a date is the product of the
\* ratios > 0 of the dates after it (split_series reindexed on close_index)
RECURSIVE FutureFactor(_, _)
FutureFactor(split_series, i) ==
    IF i >= Len(split_series) THEN One
    ELSE IF split_series[i + 1][1] > 0
         THEN RatMul(FutureFactor(split_series, i + 1), split_series[i + 1])
         ELSE FutureFactor(split_series, i + 1)

build_future_split_factor(close_len, split_series) ==
    IF split_series = <<>> THEN [i \in 1..close_len |-> One]
    ELSE [i \in 1..close_len |-> FutureFactor(split_series, i)]

\* lower <= observed_ratio <= upper, observed_ratio = future_shares / base_shares
RatioMatches(ratio, base_shares, future_shares) ==
    /\ ratio[1] * (100 - ratio_tolerance_pct) * base_shares <= future_shares * ratio[2] * 100
    /\ future_shares * ratio[2] * 100 <= ratio[1] * (100 + ratio_tolerance_pct) * base_shares

\* max_relative <= stable_tolerance over shares_series.iloc[split_pos:future_pos]
WindowStable(shares_series, split_pos, future_pos) ==
    \A i \in split_pos..(future_pos - 1) :
        100 * Abs(shares_series[i] - shares_series[split_pos])
            <= stable_tolerance_pct * shares_series[split_pos]

LagMatches(shares_series, ratio, split_pos, lag) ==
    /\ split_pos + lag <= Len(shares_series)
    /\ shares_series[split_pos + lag] > 0
    /\ RatioMatches(ratio, shares_series[split_pos], shares_series[split_pos + lag])
    /\ WindowStable(shares_series, split_pos, split_pos + lag)

\* the first lag of 1..max_lag_days that matches, 0 for matched_lag = None
matched_lag(shares_series, ratio, split_pos) ==
    IF \E lag \in 1..max_lag_days : LagMatches(shares_series, ratio, split_pos, lag)
    THEN SetMin({lag \in 1..max_lag_days : LagMatches(shares_series, ratio, split_pos, lag)})
    ELSE 0

\* one turn of the loop over splits.items()
CorrectOne(out, shares_series, ratio, split_pos) ==
    IF ratio[1] <= 0 \/ ratio[1] = ratio[2] THEN out
    ELSE IF shares_series[split_pos] <= 0 THEN out
    ELSE LET lag == matched_lag(shares_series, ratio, split_pos)
         IN [i \in 1..Len(out) |->
                IF split_pos <= i /\ i < split_pos + lag THEN RatMul(out[i], ratio) ELSE out[i]]

RECURSIVE CorrectFrom(_, _, _, _)
CorrectFrom(out, shares_series, split_series, split_pos) ==
    IF split_pos > Len(split_series) THEN out
    ELSE CorrectFrom(CorrectOne(out, shares_series, split_series[split_pos], split_pos),
                     shares_series, split_series, split_pos + 1)

correct_split_day_share_lag(shares_series, split_series, split_factor) ==
    IF split_series = <<>> \/ shares_series = <<>> \/ split_factor = <<>> THEN split_factor
    ELSE CorrectFrom(split_factor, shares_series, split_series, 1)

\* shares_series * split_factor
TimesFactor(shares_series, split_factor) ==
    [i \in 1..Len(shares_series) |-> <<shares_series[i] * split_factor[i][1], split_factor[i][2]>>]

\* Inputs: one split of ratio r on date s of close_len dates, raw shares S
\* before s + L and S * r from s + L on, the change being on a date of the
\* series.
SplitRatios == {<<2, 1>>, <<1, 2>>, <<3, 1>>, <<11, 10>>, <<9, 10>>}
BaseShares == {100, 200}

SplitCases ==
    {c \in [close_len : 1..MaxHistLen, s : 1..MaxHistLen, L : 0..max_lag_days,
            r : SplitRatios, S : BaseShares] : c.s + c.L <= c.close_len}

RawShares(c) == [i \in 1..c.close_len |-> IF i < c.s + c.L THEN c.S ELSE (c.S * c.r[1]) \div c.r[2]]

SplitSeries(c) == [i \in 1..c.close_len |-> IF i = c.s THEN c.r ELSE NoSplit]

SharesInit ==
    /\ StoreInit /\ resp = <<>> /\ CacheOff /\ RateOff /\ ClockOff
    /\ \E c \in SplitCases :
          hist = [stage |-> "fetched", case |-> c, shares_series |-> RawShares(c),
                  split_series |-> SplitSeries(c), split_factor |-> <<>>, shares |-> <<>>]

\* split_factor = build_future_split_factor(close.index, split_series)
BuildFutureSplitFactor ==
    /\ hist.stage = "fetched"
    /\ hist' = [hist EXCEPT !.stage = "factor",
                   !.split_factor = build_future_split_factor(hist.case.close_len, hist.split_series)]

\* split_factor = correct_split_day_share_lag(...)
CorrectSplitDayShareLag ==
    /\ hist.stage = "factor"
    /\ hist' = [hist EXCEPT !.stage = "corrected",
                   !.split_factor = correct_split_day_share_lag(hist.shares_series,
                                        hist.split_series, hist.split_factor)]

\* shares_series = shares_series * split_factor
ScaleShares ==
    /\ hist.stage = "corrected"
    /\ hist' = [hist EXCEPT !.stage = "scaled",
                   !.shares = TimesFactor(hist.shares_series, hist.split_factor)]

SharesNext ==
    \/ BuildFutureSplitFactor /\ UNCHANGED <<storeVars, resp, cacheVars, rateVars, now>>
    \/ CorrectSplitDayShareLag /\ UNCHANGED <<storeVars, resp, cacheVars, rateVars, now>>
    \/ ScaleShares /\ UNCHANGED <<storeVars, resp, cacheVars, rateVars, now>>

SpecShares == SharesInit /\ [][SharesNext]_vars

\* C6: for one split of ratio r (r > 0, r # 1) on date s, raw shares S
\* before s + L and S * r from s + L on, L in 0..3, the reconstructed shares
\* (raw shares times the final split factor) are flat before s and are
\* S * r on s and on every later date, the lag days [s, s + L) included.
C6_LagCorrectedShares ==
    hist.stage = "scaled" =>
        /\ \A i \in 1..(hist.case.s - 1) : RatEq(hist.shares[i], hist.shares[1])
        /\ \A i \in hist.case.s..hist.case.close_len :
              RatEq(hist.shares[i], <<hist.case.S * hist.case.r[1], hist.case.r[2]>>)

\* the ratios no unchanged share count can pass for: 1 is outside
\* [ratio * 0.8, ratio * 1.2]
ClearRatio(r) ==
    100 * r[2] < (100 - ratio_tolerance_pct) * r[1] \/ (100 + ratio_tolerance_pct) * r[1] < 100 * r[2]

\* for those ratios the reconstruction is as C6 states
LagCorrectedSharesForClearRatios == ClearRatio(hist.case.r) => C6_LagCorrectedShares

----------------------------------------------------------------------------
(* The rate limiter of the middleware (app.py). The middleware is a        *)
(* coroutine of the one event loop and is_rate_limited never awaits, so    *)
(* its calls run one after another.                                        *)

TicksPerSecond == 2
MaxNow == 6
Clients == {"ip1", "ip2"}
RateWindows == {1, 2}
RateMaxes == {1, 2}

\* RATE_LIMIT_WINDOW_SECONDS in ticks
WindowTicks == rate_conf.window * TicksPerSecond

Bucket_Shared(ip) == CHOOSE c \in Clients : TRUE

\* _rate_limit_log[ip]
Bucket(ip) == ip

\* while history and history[0] < min_allowed: history.popleft()
RECURSIVE Prune(_, _)
Prune(history, min_allowed) ==
    IF history # <<>> /\ Head(history) < min_allowed
    THEN Prune(Tail(history), min_allowed)
    ELSE history

\* time passes
Tick ==
    /\ now < MaxNow
    /\ now' = now + 1

\* is_rate_limited(ip), called for one request
IsRateLimited ==
    \E ip \in Clients :
        LET history == Prune(rate_limit_log[Bucket(ip)], now - WindowTicks)
            limited == Len(history) >= rate_conf.max
        IN /\ rate_limit_log' =
                 [rate_limit_log EXCEPT ![Bucket(ip)] =
                      IF limited THEN history ELSE Append(history, now)]
           /\ rate_seen' =
                 [admitted |-> IF limited THEN rate_seen.admitted
                               ELSE [rate_seen.admitted EXCEPT ![ip] = Append(@, now)],
                  last |-> <<[ip |-> ip, at |-> now, limited |-> limited]>>]

RateInit ==
    /\ StoreInit /\ resp = <<>> /\ CacheOff /\ SharesOff
    /\ now = 0
    /\ rate_conf \in [window : RateWindows, max : RateMaxes]
    /\ rate_limit_log = [c \in Clients |-> <<>>]
    /\ rate_seen = [admitted |-> [c \in Clients |-> <<>>], last |-> <<>>]

RateNext ==
    \/ Tick /\ UNCHANGED <<storeVars, resp, cacheVars, rateVars, hist>>
    \/ IsRateLimited /\ UNCHANGED <<storeVars, resp, cacheVars, rate_conf, now, hist>>

SpecRate == RateInit /\ [][RateNext]_vars

\* the admitted checks of a client with a timestamp in [from, to]
AdmittedIn(log, from, to) == {i \in 1..Len(log) : from <= log[i] /\ log[i] <= to}

\* the admitted checks of the client of the last check that came before it
EarlierAdmitted ==
    LET l == rate_seen.last[1]
    IN IF l.limited THEN rate_seen.admitted[l.ip]
       ELSE SubSeq(rate_seen.admitted[l.ip], 1, Len(rate_seen.admitted[l.ip]) - 1)

\* C7: counting a client's own checks only, a check is rejected exactly when
\* max checks of that client were admitted within the window before it, so
\* max checks are admitted within a window and the next one in it is
\* rejected; no window holds more than max admitted checks of a client, and
\* the checks of other clients have no part in it.
C7_RateLimitAdmission ==
    /\ rate_seen.last # <<>> =>
          (rate_seen.last[1].limited <=>
              Cardinality(AdmittedIn(EarlierAdmitted, rate_seen.last[1].at - WindowTicks,
                                     rate_seen.last[1].at)) >= rate_conf.max)
    /\ \A c \in Clients, t \in 0..MaxNow :
          Cardinality(AdmittedIn(rate_seen.admitted[c], t, t + WindowTicks)) <= rate_conf.max

\* a client is rejected on check max + 1 of a window although the other
\* client, admitted in between, is not
C7_Witness ==
    /\ rate_seen.last # <<>>
    /\ rate_seen.last[1].limited
    /\ rate_conf.max = 2
    /\ \E c \in Clients :
          /\ c # rate_seen.last[1].ip
          /\ \E i \in 1..Len(rate_seen.admitted[c]) :
                rate_seen.admitted[c][i] >= rate_seen.admitted[rate_seen.last[1].ip][1]
          /\ Len(rate_seen.admitted[c]) < rate_conf.max
    /\ Len(rate_seen.admitted[rate_seen.last[1].ip]) > rate_conf.max

----------------------------------------------------------------------------
(* The response cache (app.py) in front of /api/ranks/latest, and the      *)
(* ingestion job that rewrites the database file under it.                 *)

API_CACHE_MAX_ENTRIES == 2
MaxUpdates == 3
CacheTTLs == {0, 1}
CLimits == {1, 2}
CSymbolList == <<"A", "B">>

\* API_CACHE_TTL_SECONDS in ticks
TTLTicks == cache_conf * TicksPerSecond

\* int(DB_PATH.stat().st_mtime) if DB_PATH.exists() else 0
Fingerprint == IF db_exists THEN db_mtime \div TicksPerSecond ELSE 0

\* cache_key("latest", limit)
cache_key(op, limit) == [db_mtime |-> Fingerprint, op |-> op, limit |-> limit]

\* _api_cache.get(key): the position of the entry, 0 for None
EntryOf(cache, key) ==
    IF \E i \in 1..Len(cache) : cache[i].key = key
    THEN CHOOSE i \in 1..Len(cache) : cache[i].key = key
    ELSE 0

\* _api_cache.pop(key, None)
Pop(cache, key) == SelectSeq(cache, LAMBDA e : e.key # key)

\* cache_get: <<hit, value, cache afterwards>>
cache_get(cache, key) ==
    IF cache_conf <= 0 THEN [hit |-> FALSE, value |-> <<>>, cache |-> cache]
    ELSE IF EntryOf(cache, key) = 0 THEN [hit |-> FALSE, value |-> <<>>, cache |-> cache]
    ELSE IF cache[EntryOf(cache, key)].expire_at < now
         THEN [hit |-> FALSE, value |-> <<>>, cache |-> Pop(cache, key)]
         ELSE [hit |-> TRUE, value |-> cache[EntryOf(cache, key)].value, cache |-> cache]

ExpireAt_Now(t) == t

\* time.time() + API_CACHE_TTL_SECONDS
ExpireAt(t) == t + TTLTicks

\* _api_cache[key] = (...): a key already present keeps its place
Put(cache, key, value) ==
    IF EntryOf(cache, key) = 0
    THEN Append(cache, [key |-> key, expire_at |-> ExpireAt(now), value |-> value])
    ELSE [cache EXCEPT ![EntryOf(cache, key)] =
             [key |-> key, expire_at |-> ExpireAt(now), value |-> value]]

\* the keys of the expired entries, in dict order
StaleKeys(cache) ==
    LET stale == SelectSeq(cache, LAMBDA e : e.expire_at < now)
    IN [i \in 1..Len(stale) |-> stale[i].key]

\* the loop over the stale keys, then the fallback on the oldest key
OldestKey_Newest(cache) == cache[Len(cache)].key

\* oldest_key = next(iter(_api_cache))
OldestKey(cache) == Head(cache).key

RECURSIVE PruneThenEvict(_, _)
PruneThenEvict(cache, stale_keys) ==
    IF stale_keys = <<>> THEN Pop(cache, OldestKey(cache))
    ELSE IF Len(Pop(cache, Head(stale_keys))) <= API_CACHE_MAX_ENTRIES
         THEN Pop(cache, Head(stale_keys))
         ELSE PruneThenEvict(Pop(cache, Head(stale_keys)), Tail(stale_keys))

\* cache_set: the cache afterwards
cache_set(cache, key, value) ==
    IF cache_conf <= 0 THEN cache
    ELSE IF Len(Put(cache, key, value)) <= API_CACHE_MAX_ENTRIES THEN Put(cache, key, value)
    ELSE PruneThenEvict(Put(cache, key, value), StaleKeys(Put(cache, key, value)))

\* get_latest_date
get_latest_date(table) == IF table = {} THEN NoDate ELSE SetMax(StoredDates(table))

\* api_latest past the cache: the status and body computed from the table
api_latest(table, exists, limit) ==
    IF ~exists THEN [status |-> 500, body |-> <<>>]
    ELSE IF get_latest_date(table) = NoDate THEN [status |-> 404, body |-> <<>>]
    ELSE [status |-> 200,
          body |-> <<[as_of_date |-> get_latest_date(table),
                      rows |-> fetch_snapshot(table, get_latest_date(table), limit)]>>]

\* what the bookkeeping knows of the cache_set calls: for each key the last
\* one whose entry capacity has not evicted, with the number of updates the
\* table had seen when the value was computed
Written(key) == {w \in cache_log.sets : w.key = key}

LogSet(sets, cache_before, cache_after, key, value) ==
    IF cache_conf <= 0 THEN sets
    ELSE LET put == {w \in sets : w.key # key}
                      \cup {[key |-> key, at |-> now, value |-> value, updates |-> cache_log.updates]}
             expired == {cache_before[i].key : i \in {j \in 1..Len(cache_before) :
                                                        cache_before[j].expire_at < now}}
             kept == {cache_after[i].key : i \in 1..Len(cache_after)}
         IN {w \in put : w.key \in kept \/ w.key \in expired}

\* the keys a cache_set took out of the cache, in dict order: those of
\* expired entries (purged) and those of live ones (evicted)
Removed(before, after, expired) ==
    LET gone == SelectSeq(before, LAMBDA e : /\ \A i \in 1..Len(after) : after[i].key # e.key
                                             /\ (e.expire_at < now) = expired)
    IN [i \in 1..Len(gone) |-> gone[i].key]

\* GET /api/ranks/latest, the whole handler
ApiLatest ==
    /\ resp = <<>>
    /\ \E limit \in CLimits :
        LET key == cache_key("latest", limit)
            got == cache_get(api_cache, key)
            result == api_latest(ReaderView, db_exists, limit)
            stored == cache_set(got.cache, key, result.body)
        IN IF got.hit
           THEN /\ resp' = <<[op |-> "latest", status |-> 200, limit |-> limit, at |-> now,
                              hit |-> TRUE, body |-> got.value, written |-> Written(key)]>>
                /\ api_cache' = got.cache
                /\ UNCHANGED cache_log
           ELSE IF result.status # 200
           THEN /\ resp' = <<[op |-> "latest", status |-> result.status, limit |-> limit, at |-> now,
                              hit |-> FALSE, body |-> <<>>, written |-> Written(key)]>>
                /\ api_cache' = got.cache
                /\ UNCHANGED cache_log
           ELSE /\ resp' = <<[op |-> "latest", status |-> 200, limit |-> limit, at |-> now,
                              hit |-> FALSE, body |-> result.body, written |-> Written(key)]>>
                /\ api_cache' = stored
                /\ cache_log' = [cache_log EXCEPT
                                    !.sets = LogSet(@, got.cache, stored, key, result.body),
                                    !.purged = Removed(got.cache, stored, TRUE),
                                    !.evicted = Removed(got.cache, stored, FALSE)]
    /\ UNCHANGED <<storeVars, db_mtime, cache_conf, now>>

\* the caps of a day of the job: no two symbols tie
CDayCaps == {c \in [Symbols -> Caps] : \A x, y \in Symbols : x # y => c[x] # c[y]}

\* one whole run of main() for date 1 with fresh quotes; its commit writes
\* the database file
Update ==
    /\ pc = "idle" /\ run.status = "none"
    /\ resp = <<>>
    /\ cache_log.updates < MaxUpdates
    /\ \E c \in CDayCaps :
        LET rows == build_rank_rows(DayHistories(CSymbolList, c, 1), Cardinality(Symbols), NoDate, FALSE)
        IN /\ db' = replace_rows(db, rows)
           /\ wview' = db'
    /\ db_exists' = TRUE
    /\ db_mtime' = now
    /\ cache_log' = [cache_log EXCEPT !.updates = @ + 1, !.fingerprint = Fingerprint]
    /\ UNCHANGED <<pc, rank_rows, run, db0, seen, resp, api_cache, cache_conf, now>>

\* the clock reads a positive epoch time when the service starts
CacheInit ==
    /\ StoreInit /\ resp = <<>> /\ RateOff /\ SharesOff
    /\ now = TicksPerSecond
    /\ db_mtime = 0
    /\ api_cache = <<>>
    /\ cache_conf \in CacheTTLs
    /\ cache_log = [sets |-> {}, updates |-> 0, fingerprint |-> 0,
                    purged |-> <<>>, evicted |-> <<>>]

CacheNext ==
    \/ Tick /\ UNCHANGED <<storeVars, resp, cacheVars, rateVars, hist>>
    \/ Update /\ UNCHANGED <<rateVars, hist>>
    \/ ApiLatest /\ UNCHANGED <<rateVars, hist>>
    \/ QReturn /\ UNCHANGED cachedServiceVars

SpecCache == CacheInit /\ [][CacheNext]_vars

\* C8: with TTL > 0 an entry written by cache_set at time t and not evicted
\* for capacity is returned by cache_get for its key at every time before
\* t + TTL and is a miss at every time after t + TTL; with TTL = 0 cache_set
\* stores nothing and cache_get always misses.
C8_CacheTTL ==
    /\ cache_conf = 0 => (api_cache = <<>> /\ (resp # <<>> => ~resp[1].hit))
    /\ (cache_conf > 0 /\ resp # <<>>) =>
          \A w \in resp[1].written :
             /\ resp[1].at < w.at + TTLTicks => (resp[1].hit /\ resp[1].body = w.value)
             /\ resp[1].at > w.at + TTLTicks => ~resp[1].hit

\* a request answered from an entry written at an earlier time, its TTL not
\* yet over
C8_Witness ==
    /\ resp # <<>> /\ resp[1].hit
    /\ \E w \in resp[1].written : w.at < resp[1].at /\ resp[1].at < w.at + TTLTicks

\* a request that finds the entry of its key expired
ExpiredMissReached ==
    /\ resp # <<>> /\ ~resp[1].hit
    /\ \E w \in resp[1].written : resp[1].at > w.at + TTLTicks

\* an entry gone for capacity before its TTL is over
EvictedMissReached ==
    /\ resp # <<>> /\ ~resp[1].hit /\ resp[1].status = 200 /\ resp[1].written = {}
    /\ Len(api_cache) = API_CACHE_MAX_ENTRIES
    /\ \A i \in 1..Len(api_cache) : api_cache[i].expire_at >= now
    /\ cache_log.updates = 1

\* C9: after any update of the store no query returns a response that was
\* cached before that update: the fingerprint of cache_key differs before
\* and after every update, so every key cached before it is out of reach.
C9_FingerprintInvalidation ==
    /\ (resp # <<>> /\ resp[1].hit) =>
          \A w \in resp[1].written : w.updates = cache_log.updates
    /\ cache_log.updates > 0 => Fingerprint # cache_log.fingerprint

\* C10: the response given with the cache enabled equals the response the
\* same query would get at that moment with the cache disabled.
C10_CacheTransparency ==
    resp # <<>> =>
        /\ resp[1].status = api_latest(db, db_exists, resp[1].limit).status
        /\ resp[1].body = api_latest(db, db_exists, resp[1].limit).body

----------------------------------------------------------------------------
(* The order of a snapshot *)

\* C11: within one date the rows are ranked by descending market cap and
\* symbols of equal cap by ascending symbol, so the ranks depend only on
\* the set of (symbol, cap, price) of the date and not on the order in
\* which the symbols were supplied.
C11_RankTotalOrder ==
    pc = "built" =>
        \A i, j \in 1..Len(rank_rows) :
            (rank_rows[i].date = rank_rows[j].date /\ rank_rows[i].rank < rank_rows[j].rank) =>
                \/ rank_rows[i].market_cap > rank_rows[j].market_cap
                \/ /\ rank_rows[i].market_cap = rank_rows[j].market_cap
                   /\ SymbolIndex(rank_rows[i].symbol) < SymbolIndex(rank_rows[j].symbol)

\* what does hold: descending market cap, whatever the order among equals
RankedByCapDesc ==
    pc = "built" =>
        \A i, j \in 1..Len(rank_rows) :
            (rank_rows[i].date = rank_rows[j].date /\ rank_rows[i].rank < rank_rows[j].rank) =>
                rank_rows[i].market_cap >= rank_rows[j].market_cap

----------------------------------------------------------------------------
(* The timeline *)

\* the n most recent stored dates
RecentDates(table, n) ==
    {d \in StoredDates(table) : Cardinality({e \in StoredDates(table) : e >= d}) <= n}

\* a timeline response, its arrays being of the given length: the dates are
\* the selected ones in ascending order, there is one series for each symbol
\* with a rank <= limit on a selected date, and a position holds the rank and
\* the cap of the symbol on its date when that rank is <= limit, null
\* otherwise
TimelineArrays(r, length) ==
    LET body == r.body[1]
        selected == RecentDates(db, r.days)
    IN /\ body.dates = Sorted(selected)
       /\ {body.series[k].symbol : k \in 1..Len(body.series)}
             = {row.symbol : row \in {x \in db : x.date \in selected /\ x.rank <= r.limit}}
       /\ \A k, m \in 1..Len(body.series) :
             body.series[k].symbol = body.series[m].symbol => k = m
       /\ \A k \in 1..Len(body.series) :
             /\ Len(body.series[k].ranks) = length
             /\ Len(body.series[k].caps) = length
             /\ Len(body.dates) = length
             /\ \A i \in 1..Len(body.dates) :
                   LET sym == body.series[k].symbol
                   IN IF InTop(db, body.dates[i], sym, r.limit)
                      THEN /\ body.series[k].ranks[i] = StoredRank(db, body.dates[i], sym)
                           /\ \E row \in db : /\ row.date = body.dates[i] /\ row.symbol = sym
                                              /\ body.series[k].caps[i] = row.market_cap
                      ELSE /\ body.series[k].ranks[i] = Null
                           /\ body.series[k].caps[i] = Null

----------------------------------------------------------------------------
(* Truncation of the events *)

\* the events detected for the request that resp answers
Detected ==
    IF resp[1].op = "new-entrants"
    THEN ExpectedNewEntrants(db, resp[1].limit, resp[1].days)
    ELSE ExpectedBigMovers(db, resp[1].limit, resp[1].days, resp[1].threshold)

\* C13: the events of newEntrants and bigMovers come in ascending date
\* order; when more than max_events were detected the result is the last
\* max_events of that order, the most recent ones, otherwise it is all of
\* them; total_events is the number detected.
C13_EventTruncation ==
    (Answered("new-entrants") \/ Answered("big-movers")) =>
        LET events == resp[1].body.events
            returned == SeqToSet(events)
            detected == Detected
            total == Cardinality(detected)
        IN /\ \A i, j \in 1..Len(events) : i < j => events[i].date <= events[j].date
           /\ resp[1].body.total_events = total
           /\ Cardinality(returned) = Len(events)
           /\ returned \subseteq detected
           /\ total <= resp[1].max_events => returned = detected
           /\ total > resp[1].max_events =>
                 /\ Len(events) = resp[1].max_events
                 /\ \A e \in detected \ returned, f \in returned : e.date <= f.date

\* more events detected than max_events, on several dates: the one returned
\* is of the latest date
C13_Witness ==
    /\ Answered("new-entrants")
    /\ resp[1].max_events = 1
    /\ resp[1].body.total_events > 2
    /\ \E e \in Detected : e.date < resp[1].body.events[1].date

----------------------------------------------------------------------------
(* Capacity of the response cache *)

CacheKeys(cache) == {cache[i].key : i \in 1..Len(cache)}

Expired(cache) == {i \in 1..Len(cache) : cache[i].expire_at < now}

\* a step in which a handler computes its response and hands it to
\* cache_set under a key the cache does not hold
SetsNewKey ==
    /\ cache_conf > 0
    /\ resp = <<>> /\ resp' # <<>>
    /\ resp'[1].status = 200 /\ ~resp'[1].hit
    /\ cache_key(resp'[1].op, resp'[1].limit) \notin CacheKeys(api_cache)

\* C14: when cache_set inserts a new key into a cache that holds capacity
\* entries, none of them expired, exactly one entry is removed, the
\* oldest-inserted one; the new key and every other entry remain.
C14_CapacityEviction ==
    [][(/\ SetsNewKey
        /\ Len(api_cache) = API_CACHE_MAX_ENTRIES
        /\ Expired(api_cache) = {})
          => /\ Len(api_cache') = API_CACHE_MAX_ENTRIES
             /\ SubSeq(api_cache', 1, Len(api_cache') - 1) = Tail(api_cache)
             /\ api_cache'[Len(api_cache')].key = cache_key(resp'[1].op, resp'[1].limit)
             /\ api_cache'[Len(api_cache')].value = resp'[1].body]_vars

\* the request just served stored its response and that took the oldest
\* live entry out of a full cache
C14_Witness ==
    /\ resp # <<>> /\ resp[1].status = 200 /\ ~resp[1].hit
    /\ Len(cache_log.evicted) = 1 /\ cache_log.purged = <<>>
    /\ Len(api_cache) = API_CACHE_MAX_ENTRIES
    /\ api_cache[Len(api_cache)].expire_at = resp[1].at + TTLTicks
    /\ cache_log.evicted[1] \notin CacheKeys(api_cache)

\* C15: when an insert makes the cache exceed its capacity, all expired
\* entries are purged first, so that no expired entry remains after the
\* insert, and an unexpired entry is evicted only if the cache is still over
\* capacity once every expired entry is gone (then the oldest-inserted one).
C15_PurgeBeforeEvict ==
    [][(SetsNewKey /\ Len(api_cache) = API_CACHE_MAX_ENTRIES)
          => /\ Expired(api_cache') = {}
             /\ Expired(api_cache) # {} =>
                   \A i \in 1..Len(api_cache) :
                       i \notin Expired(api_cache) => api_cache[i].key \in CacheKeys(api_cache')
             /\ Expired(api_cache) = {} =>
                   SubSeq(api_cache', 1, Len(api_cache') - 1) = Tail(api_cache)]_vars

\* what does hold: expired entries go first, in dict order and only until
\* the cache is back within capacity; a live entry goes only when none is
\* expired
PurgeUntilWithinCapacity ==
    [][(SetsNewKey /\ Len(api_cache) = API_CACHE_MAX_ENTRIES)
          => /\ Len(api_cache') = API_CACHE_MAX_ENTRIES
             /\ Expired(api_cache) # {} =>
                   /\ cache_log'.evicted = <<>>
                   /\ cache_log'.purged = <<api_cache[SetMin(Expired(api_cache))].key>>
             /\ Expired(api_cache) = {} =>
                   /\ cache_log'.purged = <<>>
                   /\ cache_log'.evicted = <<api_cache[1].key>>]_vars

----------------------------------------------------------------------------
(* Boundedness of the in-memory structures *)

\* the timestamps of a client have all left the window
AllExpired(history) == \A i \in 1..Len(history) : history[i] < now - WindowTicks

\* C16: the response cache holds at most capacity entries, each client's
\* recorded timestamps are at most max, and the rate limiter keeps no state
\* for clients whose timestamps have all expired.
C16_Bounded ==
    /\ Len(api_cache) <= API_CACHE_MAX_ENTRIES
    /\ rate_conf # <<>> =>
          \A c \in DOMAIN rate_limit_log :
             /\ Len(rate_limit_log[c]) <= rate_conf.max
             /\ AllExpired(rate_limit_log[c]) => rate_limit_log[c] = <<>>

\* what does hold of the rate limiter: at most max timestamps per client
RateLogWithinMax ==
    rate_conf # <<>> => \A c \in DOMAIN rate_limit_log : Len(rate_limit_log[c]) <= rate_conf.max

\* what does hold of the cache: at most capacity entries
CacheWithinCapacity == Len(api_cache) <= API_CACHE_MAX_ENTRIES

----------------------------------------------------------------------------
(* The replace when the database fails it: a statement of replace_rows      *)
(* raises (disk full, I/O error, database locked), the exception leaves    *)
(* the with block of main() and the connection rolls back.                 *)

\* executemany raises at row k: the rows before it are in the transaction
MainInsertRaises ==
    /\ pc = "deleted"
    /\ \E k \in 1..Len(rank_rows) :
          wview' = InsertRows(wview, SubSeq(rank_rows, 1, k - 1))
    /\ pc' = "raised"
    /\ UNCHANGED <<db, db_exists, rank_rows, run, db0, seen>>

\* conn.commit() raises: nothing is committed
MainCommitRaises ==
    /\ pc = "inserted"
    /\ pc' = "raised"
    /\ UNCHANGED <<db, db_exists, wview, rank_rows, run, db0, seen>>

\* the exception is swallowed and the transaction committed
MainRollback_Commit ==
    /\ pc = "raised"
    /\ db' = wview
    /\ pc' = "idle"
    /\ run' = [run EXCEPT !.status = "failed"]
    /\ UNCHANGED <<db_exists, wview, rank_rows, db0, seen>>

\* Connection.__exit__ with an exception: rollback; the exception is no
\* ConfigError, so it ends the process with a traceback
MainRollback ==
    /\ pc = "raised"
    /\ wview' = db
    /\ pc' = "idle"
    /\ run' = [run EXCEPT !.status = "failed"]
    /\ UNCHANGED <<db, db_exists, rank_rows, db0, seen>>

FailNext ==
    \/ MainBuild /\ UNCHANGED serviceVars
    \/ MainDryRun /\ UNCHANGED serviceVars
    \/ MainDelete /\ UNCHANGED serviceVars
    \/ MainInsert /\ UNCHANGED serviceVars
    \/ MainInsertRaises /\ UNCHANGED serviceVars
    \/ MainCommit /\ UNCHANGED serviceVars
    \/ MainCommitRaises /\ UNCHANGED serviceVars
    \/ MainRollback /\ UNCHANGED serviceVars
    \/ MainExit /\ UNCHANGED serviceVars

SpecFail == Init /\ [][FailNext]_vars

\* C17: a replace that fails after its delete step, at any insert or before
\* the commit, is rolled back in full: the store holds the rows it held
\* before the replace began, the run ends in failure, and what is committed
\* is at every moment the rows of before or the rows of the whole replace.
C17_RollbackOnFailure ==
    /\ pc = "raised" => db = db0
    /\ run.status = "failed" => (db = db0 /\ wview = db0 /\ pc = "idle")
    /\ run.status \in {"writing", "failed"} => db = db0
    /\ run.status = "stored" => db = AfterReplace

\* a run has failed after deleting stored rows and the table holds them again
C17_Witness ==
    /\ run.status = "failed"
    /\ DeleteRange(db0, rank_rows) # db0
    /\ db = db0
    /\ SeqToSet(rank_rows) # RowsOf(db0, 1) \cup RowsOf(db0, 2)

\* the failure struck with some rows of the replace written and others not
PartialInsertReached ==
    /\ pc = "raised"
    /\ wview # DeleteRange(db0, rank_rows)
    /\ wview # AfterReplace

----------------------------------------------------------------------------
(* Reads of a store that may be empty, and the history of one symbol.      *)
(* The cache is off (API_CACHE_TTL_SECONDS = 0). A symbol of a request is  *)
(* the sequence of its characters; the stored symbols are the one-letter   *)
(* upper-case tickers.                                                     *)

NumRDates == 3
MaxHistoryDays == 2

\* str.upper(), character by character
UpperChar(ch) ==
    CASE ch = "a" -> "A"
      [] ch = "b" -> "B"
      [] ch = "z" -> "Z"
      [] OTHER -> ch

Upper(text) == [i \in 1..Len(text) |-> UpperChar(text[i])]

\* str.strip()
RECURSIVE Strip(_)
Strip(text) ==
    IF text = <<>> THEN text
    ELSE IF Head(text) = " " THEN Strip(Tail(text))
    ELSE IF text[Len(text)] = " " THEN Strip(SubSeq(text, 1, Len(text) - 1))
    ELSE text

\* the text of a stored symbol
TextOf(symbol) == <<symbol>>

\* normalized_symbol = symbol.upper()
normalized_symbol(symbol) == Upper(symbol)

\* ORDER BY as_of_date DESC
RECURSIVE SortByDateDesc(_)
SortByDateDesc(rows) ==
    IF rows = {} THEN <<>>
    ELSE LET r == CHOOSE x \in rows : \A y \in rows : y.date <= x.date
         IN <<r>> \o SortByDateDesc(rows \ {r})

\* fetch_rank_history: WHERE symbol = ? ORDER BY as_of_date DESC LIMIT ?
fetch_rank_history(table, symbol, days) ==
    LET ordered == SortByDateDesc({r \in table : TextOf(r.symbol) = symbol})
    IN [i \in 1..Min(days, Len(ordered)) |->
           [as_of_date |-> ordered[i].date, rank |-> ordered[i].rank,
            market_cap |-> ordered[i].market_cap, price |-> ordered[i].price]]

\* reversed(rows)
Reversed(rows) == [i \in 1..Len(rows) |-> rows[Len(rows) + 1 - i]]

\* api_rank_history past the cache
rank_history(table, exists, symbol, days) ==
    IF ~exists THEN [status |-> 500, body |-> <<>>]
    ELSE IF fetch_rank_history(table, normalized_symbol(symbol), days) = <<>>
    THEN [status |-> 404, body |-> <<>>]
    ELSE [status |-> 200,
          body |-> <<[symbol |-> normalized_symbol(symbol),
                      rows |-> Reversed(fetch_rank_history(table, normalized_symbol(symbol), days))]>>]

\* the symbols a client may send: a ticker or an unknown one, in either
\* case, with or without a blank before and after
SymbolInputs ==
    {pre \o <<l>> \o post : pre \in {<<>>, <<" ">>}, post \in {<<>>, <<" ">>},
                            l \in {"a", "A", "b", "B", "z"}}

\* GET /api/rank-history/{symbol}
ApiRankHistory ==
    /\ resp = <<>>
    /\ \E symbol \in SymbolInputs, days \in 1..MaxHistoryDays :
        resp' = <<[op |-> "rank-history", status |-> rank_history(ReaderView, db_exists, symbol, days).status,
                   symbol |-> symbol, days |-> days,
                   body |-> rank_history(ReaderView, db_exists, symbol, days).body]>>
    /\ UNCHANGED <<storeVars, cacheVars, now>>

\* the caps of a day: some symbols have data, no two of them tie
RDayCaps ==
    {c \in [Symbols -> 0..Cardinality(Symbols)] :
        /\ \E x \in Symbols : c[x] > 0
        /\ \A x, y \in Symbols : (x # y /\ c[x] > 0) => c[x] # c[y]}

\* one whole daily run of main() for the day after the last stored one
RIngestDay ==
    /\ pc = "idle" /\ run.status = "none"
    /\ resp = <<>>
    /\ \E c \in RDayCaps :
        LET d == IF db = {} THEN 1 ELSE SetMax(StoredDates(db)) + 1
            rows == build_rank_rows(DayHistories(CSymbolList, c, d), Cardinality(Symbols), NoDate, FALSE)
        IN /\ d <= NumRDates
           /\ rows # <<>>
           /\ db' = replace_rows(db, rows)
           /\ wview' = db'
    /\ db_exists' = TRUE
    /\ db_mtime' = now
    /\ UNCHANGED <<pc, rank_rows, run, db0, seen, resp, api_cache, cache_conf, cache_log, now>>

\* a first run of main() whose replace fails: ensure_db has created the
\* database file and the ranks table, the rollback leaves the table empty
MainFirstRunFails ==
    /\ pc = "idle" /\ run.status = "none"
    /\ resp = <<>>
    /\ ~db_exists
    /\ db_exists' = TRUE
    /\ db_mtime' = now
    /\ UNCHANGED <<db, wview, pc, rank_rows, run, db0, seen, resp, api_cache, cache_conf, cache_log, now>>

ReadInit ==
    /\ StoreInit /\ resp = <<>> /\ RateOff /\ SharesOff
    /\ now = TicksPerSecond
    /\ db_mtime = 0
    /\ api_cache = <<>>
    /\ cache_conf = 0
    /\ cache_log = [sets |-> {}, updates |-> 0, fingerprint |-> 0,
                    purged |-> <<>>, evicted |-> <<>>]

ReadNext ==
    \/ RIngestDay /\ UNCHANGED <<rateVars, hist>>
    \/ MainFirstRunFails /\ UNCHANGED <<rateVars, hist>>
    \/ ApiLatest /\ UNCHANGED <<rateVars, hist>>
    \/ ApiRankHistory /\ UNCHANGED <<rateVars, hist>>
    \/ QReturn /\ UNCHANGED cachedServiceVars

SpecRead == ReadInit /\ [][ReadNext]_vars

\* the rows of a symbol text in the store, as rankHistory returns them
HistoryRows(text) ==
    {[as_of_date |-> r.date, rank |-> r.rank, market_cap |-> r.market_cap, price |-> r.price] :
        r \in {x \in db : TextOf(x.symbol) = text}}

\* a rank-history response for the symbol text that the request normalizes
\* to: NotFound exactly when the store has no row of it, else its up to
\* days most recent rows, oldest first
HistoryOf(r, text) ==
    IF HistoryRows(text) = {} THEN r.status = 404
    ELSE /\ r.status = 200
         /\ LET rows == r.body[1].rows
            IN /\ Len(rows) = Min(r.days, Cardinality(HistoryRows(text)))
               /\ SeqToSet(rows) \subseteq HistoryRows(text)
               /\ \A i, j \in 1..Len(rows) : i < j => rows[i].as_of_date < rows[j].as_of_date
               /\ \A h \in HistoryRows(text) \ SeqToSet(rows) :
                     \A i \in 1..Len(rows) : h.as_of_date < rows[i].as_of_date

\* C18: rankHistory normalizes the symbol by trimming surrounding whitespace
\* and uppercasing, so inputs differing only in case or surrounding
\* whitespace give the same result: the up to maxDays most recent rows of
\* the symbol, oldest first, and NotFound exactly when the store holds no
\* row of the normalized symbol.
C18_RankHistoryNormalized ==
    (resp # <<>> /\ resp[1].op = "rank-history" /\ db_exists) =>
        HistoryOf(resp[1], Upper(Strip(resp[1].symbol)))

\* what does hold: the same with uppercasing as the only normalization
RankHistoryUppercased ==
    (resp # <<>> /\ resp[1].op = "rank-history" /\ db_exists) =>
        HistoryOf(resp[1], Upper(resp[1].symbol))

\* C19: whenever the store holds no snapshot rows, before the first
\* ingestion run has written anything included, latestSnapshot fails as a
\* not-found condition, never as an internal error; when the store is not
\* empty it returns the rows of the most recent date with rank <= limit in
\* ascending rank order.
C19_EmptyStoreReads ==
    (resp # <<>> /\ resp[1].op = "latest") =>
        IF db = {} THEN resp[1].status = 404
        ELSE /\ resp[1].status = 200
             /\ LET rows == resp[1].body[1].rows
                    latest == SetMax(StoredDates(db))
                IN /\ resp[1].body[1].as_of_date = latest
                   /\ SeqToSet(rows) = {r \in db : r.date = latest /\ r.rank <= resp[1].limit}
                   /\ \A i, j \in 1..Len(rows) : i < j => rows[i].rank < rows[j].rank

\* what does hold: the same once the database file exists
LatestOnceDatabaseExists == db_exists => C19_EmptyStoreReads

\* an empty table in an existing database file is answered with not found
EmptyTableNotFound ==
    /\ resp # <<>> /\ resp[1].op = "latest" /\ resp[1].status = 404 /\ db = {} /\ db_exists

----------------------------------------------------------------------------
(* The fetch loop of main(), one symbol at a time.  run carries the locals *)
(* of main (symbols, args, histories, failures) and fetchlog, the record   *)
(* of what each call of fetch_symbol_history gave.                         *)

\* the screener's list, cut by --symbols-limit: the symbols of a non-empty
\* set in any order
SymbolLists == UNION {Perms(S) : S \in (SUBSET Symbols) \ {{}}}

\* main() up to the fetch loop
MainStart ==
    /\ pc = "idle" /\ run.status = "none"
    /\ \E symbols \in SymbolLists, args \in RunArgs :
        run' = [status |-> "fetching", store_limit |-> args.store_limit, counts |-> <<>>,
                reps |-> 1, once |-> {}, symbols |-> symbols, args |-> args, idx |-> 1,
                histories |-> <<>>, failures |-> {}, fetchlog |-> <<>>]
    /\ pc' = "fetching"
    /\ db0' = db
    /\ UNCHANGED <<db, db_exists, wview, rank_rows, seen>>

\* what one pass of the loop body does to the locals
Fetched(symbol, outcome) ==
    [run EXCEPT !.idx = @ + 1,
                !.fetchlog = Append(@, [symbol |-> symbol, raised |-> outcome.raised,
                                        series |-> outcome.series]),
                !.histories = IF ~outcome.raised /\ outcome.series # <<>>
                              THEN Append(@, [symbol |-> symbol, series |-> outcome.series])
                              ELSE @,
                !.failures = IF outcome.raised
                             THEN @ \cup {[symbol |-> symbol, reason |-> "exception"]}
                             ELSE IF outcome.series = <<>>
                             THEN @ \cup {[symbol |-> symbol, reason |-> "empty series"]}
                             ELSE @]

\* a loop without the try: the exception of a fetch ends main()
MainFetchSymbol_NoTry ==
    /\ pc = "fetching" /\ run.idx <= Len(run.symbols)
    /\ \E outcome \in FetchOutcomes :
        IF outcome.raised
        THEN /\ run' = [Fetched(run.symbols[run.idx], outcome) EXCEPT !.status = "config_error"]
             /\ pc' = "idle"
        ELSE /\ run' = Fetched(run.symbols[run.idx], outcome)
             /\ pc' = pc
    /\ UNCHANGED <<db, db_exists, wview, rank_rows, db0, seen>>

\* one pass of the loop: try fetch_symbol_history; except: failures, continue
MainFetchSymbol ==
    /\ pc = "fetching" /\ run.idx <= Len(run.symbols)
    /\ \E outcome \in FetchOutcomes :
        /\ run' = Fetched(run.symbols[run.idx], outcome)
        /\ pc' = pc
    /\ UNCHANGED <<db, db_exists, wview, rank_rows, db0, seen>>

\* after the loop: if not histories: raise ConfigError; build_rank_rows;
\* if not rank_rows: raise ConfigError
MainRank ==
    /\ pc = "fetching" /\ run.idx > Len(run.symbols)
    /\ LET rows == build_rank_rows(run.histories, run.args.store_limit,
                                   run.args.target_date, run.args.all_dates)
       IN IF run.histories = <<>> \/ rows = <<>>
          THEN /\ run' = [run EXCEPT !.status = "config_error"]
               /\ pc' = "idle"
               /\ UNCHANGED rank_rows
          ELSE /\ run' = [run EXCEPT !.status = "built",
                                     !.counts = Counts(run.histories, run.args.target_date, rows)]
               /\ rank_rows' = rows
               /\ pc' = "built"
    /\ UNCHANGED <<db, db_exists, wview, db0, seen>>

BatchNext ==
    \/ MainStart /\ UNCHANGED serviceVars
    \/ MainFetchSymbol /\ UNCHANGED serviceVars
    \/ MainRank /\ UNCHANGED serviceVars
    \/ MainDryRun /\ UNCHANGED serviceVars
    \/ MainDelete /\ UNCHANGED serviceVars
    \/ MainInsert /\ UNCHANGED serviceVars
    \/ MainCommit /\ UNCHANGED serviceVars
    \/ MainExit /\ UNCHANGED serviceVars

SpecBatch == Init /\ [][BatchNext]_vars

\* the symbols whose fetch raised or gave no data, by the record of the calls
FailedFetches ==
    {run.fetchlog[i].symbol : i \in {j \in 1..Len(run.fetchlog) :
        run.fetchlog[j].raised \/ run.fetchlog[j].series = <<>>}}

FetchedSymbols == {run.fetchlog[i].symbol : i \in 1..Len(run.fetchlog)}

\* the loop is over: the batch has ended or gone on to rank and store
PastFetching == run.status \notin {"none", "fetching"}

\* the parts of the claim that do not say when the batch fails: failures are
\* recorded, no failure stops the loop, only successful symbols are ranked,
\* a failed batch leaves the store as it was
IsolatedFailures ==
    /\ run.status # "none" => {f.symbol : f \in run.failures} = FailedFetches
    /\ PastFetching => FetchedSymbols = SeqToSet(run.symbols)
    /\ pc = "built" =>
          /\ rank_rows # <<>>
          /\ {r.symbol : r \in SeqToSet(rank_rows)} \subseteq SeqToSet(run.symbols) \ FailedFetches
    /\ run.status = "config_error" => pc = "idle" /\ db = db0 /\ wview = db

NoRowToRank ==
    \A i \in 1..Len(run.fetchlog) :
        \/ run.fetchlog[i].raised
        \/ \A k \in 1..Len(run.fetchlog[i].series) :
              /\ run.args.target_date # NoDate
              /\ run.fetchlog[i].series[k].date # run.args.target_date

FailedWithFetchedSymbol ==
    /\ run.status = "config_error"
    /\ FailedFetches # SeqToSet(run.symbols)

----------------------------------------------------------------------------
(* is_rate_limited called from threads: a caller reads its clock, then     *)
(* waits for _rate_limit_lock; the with block runs under the lock, so it   *)
(* is one step.  rate_seen carries the calls in flight.                    *)

Threads == {"t1", "t2"}

NoCall == [pc |-> "idle", ip |-> "", now |-> 0]

\* now = time.time(); min_allowed = now - RATE_LIMIT_WINDOW_SECONDS
ReadClock ==
    \E t \in Threads, ip \in Clients :
        /\ rate_seen.calls[t].pc = "idle"
        /\ rate_seen' = [rate_seen EXCEPT !.calls[t] = [pc |-> "waiting", ip |-> ip, now |-> now]]
        /\ UNCHANGED rate_limit_log

\* with _rate_limit_lock: prune, compare, append; whichever waiting caller
\* gets the lock goes first
WithRateLimitLock ==
    \E t \in Threads :
        /\ rate_seen.calls[t].pc = "waiting"
        /\ LET call == rate_seen.calls[t]
               history == Prune(rate_limit_log[Bucket(call.ip)], call.now - WindowTicks)
               limited == Len(history) >= rate_conf.max
           IN /\ rate_limit_log' =
                    [rate_limit_log EXCEPT ![Bucket(call.ip)] =
                         IF limited THEN history ELSE Append(history, call.now)]
              /\ rate_seen' = [calls |-> [rate_seen.calls EXCEPT ![t] = NoCall],
                               last |-> <<[ip |-> call.ip, at |-> call.now, limited |-> limited]>>]

ThreadsInit ==
    /\ StoreInit /\ resp = <<>> /\ CacheOff /\ SharesOff
    /\ now = 0
    /\ rate_conf \in [window : RateWindows, max : RateMaxes]
    /\ rate_limit_log = [c \in Clients |-> <<>>]
    /\ rate_seen = [calls |-> [t \in Threads |-> NoCall], last |-> <<>>]

ThreadsNext ==
    \/ Tick /\ UNCHANGED <<storeVars, resp, cacheVars, rateVars, hist>>
    \/ ReadClock /\ UNCHANGED <<storeVars, resp, cacheVars, rate_conf, now, hist>>
    \/ WithRateLimitLock /\ UNCHANGED <<storeVars, resp, cacheVars, rate_conf, now, hist>>

SpecThreads == ThreadsInit /\ [][ThreadsNext]_vars

NonDecreasing(history) ==
    \A i, j \in 1..Len(history) : i < j => history[i] <= history[j]

\* C21: under concurrent checks for the same client the timestamps of the
\* client's sequence are always in non-decreasing order, so that after a
\* check no timestamp older than the caller's now - windowSeconds is left
\* in it, and a check is rejected only if at least max timestamps of the
\* client lie within the caller's window.
C21_OrderedUnderConcurrency ==
    /\ \A c \in Clients : NonDecreasing(rate_limit_log[c])
    /\ rate_seen.last # <<>> =>
          LET l == rate_seen.last[1]
              history == rate_limit_log[l.ip]
          IN /\ \A i \in 1..Len(history) : history[i] >= l.at - WindowTicks
             /\ l.limited =>
                   Cardinality({i \in 1..Len(history) : history[i] >= l.at - WindowTicks})
                       >= rate_conf.max

\* what the disorder leads to: no check is ever rejected with fewer than
\* max timestamps in its window
NeverRejectedBelowMax ==
    (rate_seen.last # <<>> /\ rate_seen.last[1].limited) =>
        Cardinality({i \in 1..Len(rate_limit_log[rate_seen.last[1].ip]) :
                        rate_limit_log[rate_seen.last[1].ip][i]
                            >= rate_seen.last[1].at - WindowTicks}) >= rate_conf.max

\* with the calls made one after the other the sequences are ordered
OrderedWhenSerial == \A c \in Clients : NonDecreasing(rate_limit_log[c])

----------------------------------------------------------------------------
(* api_ranks_timeline read by read: the two SELECTs of the handler are two *)
(* read transactions, and a run of the ingestion job may commit between    *)
(* them.  resp carries the request in flight (stage "dates") and then the  *)
(* response (stage "done").                                                *)

NumTDates == 3

TLimits == 1..Cardinality(Symbols)

\* a run of main() with --date d, from the fetch to the commit: the rows of
\* date d replace the stored rows of date d
TIngestDate ==
    /\ pc = "idle" /\ run.status = "none"
    /\ IF resp = <<>> THEN TRUE ELSE resp[1].stage = "dates"
    /\ \E d \in 1..NumTDates, c \in RDayCaps :
        LET rows == build_rank_rows(DayHistories(CSymbolList, c, d), Cardinality(Symbols), d, FALSE)
        IN /\ rows # <<>>
           /\ db' = replace_rows(db, rows)
           /\ wview' = db'
           /\ db' # db
    /\ db_exists' = TRUE
    /\ UNCHANGED <<pc, rank_rows, run, db0, seen, resp>>

\* dates = fetch_recent_dates(conn, days); if not dates: raise 404
TimelineReadDates ==
    /\ resp = <<>>
    /\ \E limit \in TLimits, days \in QTimelineDays :
        resp' = <<[op |-> "timeline", limit |-> limit, days |-> days,
                   stage |-> IF db_exists /\ fetch_recent_dates(ReaderView, days) # <<>>
                             THEN "dates" ELSE "done",
                   status |-> IF ~db_exists THEN 500
                              ELSE IF fetch_recent_dates(ReaderView, days) = <<>> THEN 404 ELSE 0,
                   dates |-> IF db_exists THEN fetch_recent_dates(ReaderView, days) ELSE <<>>,
                   fetched |-> {}, body |-> <<>>]>>
    /\ UNCHANGED storeVars

\* the handler from the loop over rows on: idx_by_date[row["as_of_date"]]
\* raises KeyError for a date that is not in dates, which the server
\* answers with 500
timeline_result(dates, rows, limit) ==
    IF rows = <<>>
    THEN [status |-> 200, body |-> <<[dates |-> dates, series |-> <<>>, limit |-> limit]>>]
    ELSE IF \E k \in 1..Len(rows) : rows[k].date \notin SeqToSet(dates)
    THEN [status |-> 500, body |-> <<>>]
    ELSE [status |-> 200,
          body |-> <<[dates |-> dates,
                      series |-> SortSeries({SeriesOfSymbol(rows, dates, rows[k].symbol) :
                                                k \in 1..Len(rows)}),
                      limit |-> limit]>>]

\* rows = fetch_timeline_rows(conn, dates, limit), and the rest of the handler
TimelineReadRows ==
    /\ resp # <<>> /\ resp[1].stage = "dates"
    /\ LET rows == fetch_timeline_rows(ReaderView, resp[1].dates, resp[1].limit)
       IN resp' = <<[resp[1] EXCEPT
                        !.stage = "done",
                        !.fetched = {rows[k].date : k \in 1..Len(rows)},
                        !.status = timeline_result(resp[1].dates, rows, resp[1].limit).status,
                        !.body = timeline_result(resp[1].dates, rows, resp[1].limit).body]>>
    /\ UNCHANGED storeVars

\* the response is sent
TimelineReturn ==
    /\ resp # <<>> /\ resp[1].stage = "done"
    /\ resp' = <<>>
    /\ UNCHANGED storeVars

TimelineNext ==
    \/ TIngestDate /\ UNCHANGED cachedServiceVars
    \/ TimelineReadDates /\ UNCHANGED cachedServiceVars
    \/ TimelineReadRows /\ UNCHANGED cachedServiceVars
    \/ TimelineReturn /\ UNCHANGED cachedServiceVars

SpecTimeline == Init /\ [][TimelineNext]_vars

\* C22: whatever replace commits between timeline's read of the recent
\* dates and its read of the rows, every row fetched has a date of the
\* selected dates list, and the query ends with a well-formed result and
\* not with a failure on an unknown date.
C22_TimelineUnderReplace ==
    (resp # <<>> /\ resp[1].stage = "done" /\ resp[1].dates # <<>>) =>
        /\ resp[1].fetched \subseteq SeqToSet(resp[1].dates)
        /\ resp[1].status = 200
        /\ resp[1].body[1].dates = resp[1].dates
        /\ \A i \in 1..Len(resp[1].body[1].series) :
              /\ Len(resp[1].body[1].series[i].ranks) = Len(resp[1].dates)
              /\ Len(resp[1].body[1].series[i].caps) = Len(resp[1].dates)

\* what does hold: the rows fetched lie between the first and the last of
\* the selected dates, and the query fails exactly when one of them has a
\* date that was not selected
TimelineRowsWithinRange ==
    (resp # <<>> /\ resp[1].stage = "done" /\ resp[1].dates # <<>>) =>
        /\ \A d \in resp[1].fetched :
              resp[1].dates[1] <= d /\ d <= resp[1].dates[Len(resp[1].dates)]
        /\ resp[1].status = 500 <=> ~(resp[1].fetched \subseteq SeqToSet(resp[1].dates))
        /\ resp[1].status \in {200, 500}

====
